---- MODULE Spec2Model ----
(***************************************************************************)
(* Rayhunter -> Home Assistant bridge (rayhunter_bridge.py).               *)
(*                                                                         *)
(* The module models the tiered extraction (get_stats, parse_newest_entry, *)
(* count_warnings_from_manifest_entry, count_warnings_from_report), the    *)
(* publish helper mqtt_publish, the stdin reader thread, the signal        *)
(* handler and the poll loop of main(), one action per block of the loop.  *)
(*                                                                         *)
(* Python values are tagged records; Python strings are TLA+ strings, read *)
(* character by character with SubSeq.                                     *)
(*                                                                         *)
(* time.time() is the variable clock, in whole seconds since the start of  *)
(* main(). It advances in time.sleep(1); the body of a cycle (the fetches  *)
(* included) reads one and the same time.                                  *)
(*                                                                         *)
(* Specifications: Spec is the program up to MaxTime; ShutdownSpec adds    *)
(* the progress of the main thread; LiveSpec follows the loop without end  *)
(* (no signal, the origin of time moved up between cycles); FaultSpec adds *)
(* publish calls that raise; ExtractSpec calls the extraction helpers on   *)
(* generated documents.                                                    *)
(***************************************************************************)
EXTENDS Integers, Sequences, FiniteSets, TLC

\* ------------------------------------------------------------------------
\* Python / JSON values (what json.loads hands to the helpers)
\* ------------------------------------------------------------------------

\* None: also what json_get returns when the fetch or the parse failed.
None == [t |-> "null"]
JInt(n) == [t |-> "int", i |-> n]
JBool(b) == [t |-> "bool", b |-> b]
JStr(s) == [t |-> "str", s |-> s]
\* a list: l is the sequence of its items
JList(l) == [t |-> "list", l |-> l]
\* a dict: d is the sequence of its <<key, value>> items, in insertion order
JDict(d) == [t |-> "dict", d |-> d]

\* The outcome of an expression that raised (caught by the callers' except).
Raises == [t |-> "exc"]

\* bool(v): Python truthiness, as used by `or`, `if rid` and `if newest`.
Truthy(v) ==
    CASE v.t = "null" -> FALSE
      [] v.t = "int"  -> v.i # 0
      [] v.t = "bool" -> v.b
      [] v.t = "str"  -> Len(v.s) > 0
      [] v.t = "list" -> Len(v.l) > 0
      [] v.t = "dict" -> Len(v.d) > 0

\* a or b
Or(a, b) == IF Truthy(a) THEN a ELSE b

\* k in d
HasKey(x, k) == \E n \in 1..Len(x.d) : x.d[n][1] = k

\* d.get(k): the value under k, None when k is absent
Get(x, k) ==
    IF HasKey(x, k)
    THEN x.d[CHOOSE n \in 1..Len(x.d) : x.d[n][1] = k][2]
    ELSE None

\* ------------------------------------------------------------------------
\* str(), int() and the characters of a string
\* ------------------------------------------------------------------------

Digits == "0123456789"

Char(s, n) == SubSeq(s, n, n)

IsDigit(c) == \E k \in 1..10 : Char(Digits, k) = c

DigitVal(c) == (CHOOSE k \in 1..10 : Char(Digits, k) = c) - 1

RECURSIVE NatStr(_)
NatStr(n) ==
    IF n < 10 THEN Char(Digits, n + 1)
    ELSE NatStr(n \div 10) \o Char(Digits, (n % 10) + 1)

\* str(n) of an int
IntStr(n) == IF n < 0 THEN "-" \o NatStr(-n) ELSE NatStr(n)

RECURSIVE NatVal(_)
NatVal(s) ==
    IF Len(s) = 0 THEN 0
    ELSE NatVal(SubSeq(s, 1, Len(s) - 1)) * 10 + DigitVal(Char(s, Len(s)))

AllDigits(s) == Len(s) > 0 /\ \A n \in 1..Len(s) : IsDigit(Char(s, n))

\* int(s) of a str: an optional sign and decimal digits, anything else raises
\* (surrounding blanks and digit-group underscores are outside the modelled
\* inputs).
ParseInt(s) ==
    IF Len(s) > 0 /\ Char(s, 1) \in {"-", "+"}
    THEN IF AllDigits(SubSeq(s, 2, Len(s)))
         THEN JInt((IF Char(s, 1) = "-" THEN -1 ELSE 1) * NatVal(SubSeq(s, 2, Len(s))))
         ELSE Raises
    ELSE IF AllDigits(s) THEN JInt(NatVal(s)) ELSE Raises

\* int(v): TypeError for None, list and dict, ValueError for a non-numeric str
PyInt(v) ==
    CASE v.t = "int"  -> v
      [] v.t = "bool" -> JInt(IF v.b THEN 1 ELSE 0)
      [] v.t = "str"  -> ParseInt(v.s)
      [] OTHER        -> Raises

\* ", ".join(items) of a sequence of strings
RECURSIVE Join(_)
Join(items) ==
    IF Len(items) = 0 THEN ""
    ELSE IF Len(items) = 1 THEN items[1]
    ELSE items[1] \o ", " \o Join(Tail(items))

\* repr(v): a str in single quotes (quotes and escapes are outside the
\* modelled inputs), a list as [a, b], a dict as {'k': v, ...}
RECURSIVE Repr(_)
Repr(v) ==
    CASE v.t = "null" -> "None"
      [] v.t = "int"  -> IntStr(v.i)
      [] v.t = "bool" -> (IF v.b THEN "True" ELSE "False")
      [] v.t = "str"  -> "'" \o v.s \o "'"
      [] v.t = "list" -> "[" \o Join([n \in 1..Len(v.l) |-> Repr(v.l[n])]) \o "]"
      [] v.t = "dict" ->
           "{" \o Join([n \in 1..Len(v.d) |->
                          "'" \o v.d[n][1] \o "': " \o Repr(v.d[n][2])]) \o "}"

\* str(v): a str is itself, every other value prints as its repr
PyStr(v) == IF v.t = "str" THEN v.s ELSE Repr(v)

UpperCase == "ABCDEFGHIJKLMNOPQRSTUVWXYZ"
LowerCase == "abcdefghijklmnopqrstuvwxyz"

LowerChar(c) ==
    IF \E k \in 1..26 : Char(UpperCase, k) = c
    THEN Char(LowerCase, CHOOSE k \in 1..26 : Char(UpperCase, k) = c)
    ELSE c

\* s.lower(), and the folding re.I applies to ASCII text
RECURSIVE Lower(_)
Lower(s) ==
    IF Len(s) = 0 THEN ""
    ELSE LowerChar(Char(s, 1)) \o Lower(SubSeq(s, 2, Len(s)))

\* the positions of s at which the literal pat starts
Occurrences(s, pat) ==
    {n \in 1..(Len(s) - Len(pat) + 1) : SubSeq(s, n, n + Len(pat) - 1) = pat}

\* \w of the re module, on ASCII text
IsWordChar(c) ==
    \/ IsDigit(c)
    \/ c = "_"
    \/ \E k \in 1..26 : Char(UpperCase, k) = c \/ Char(LowerCase, k) = c

\* k.split("."): the dotted path as the sequence of its keys
RECURSIVE Split(_)
Split(s) ==
    IF Occurrences(s, ".") = {} THEN <<s>>
    ELSE LET n == CHOOSE m \in Occurrences(s, ".") :
                      \A o \in Occurrences(s, ".") : m <= o
         IN  <<SubSeq(s, 1, n - 1)>> \o Split(SubSeq(s, n + 1, Len(s)))

Max(a, b) == IF a >= b THEN a ELSE b

\* ------------------------------------------------------------------------
\* Tier 1: /api/system-stats
\* ------------------------------------------------------------------------

\* get_stats() applied to the document js that json_get returned:
\* <<warning_count, last_report_id>>, each None when unresolved.
get_stats(js) ==
    IF js.t # "dict" THEN <<None, None>>
    ELSE LET warn0 == Or(Or(Get(js, "warningCount"), Get(js, "warnings")),
                         Get(js, "warning_count"))
             lrid0 == Or(Or(Get(js, "lastReportId"), Get(js, "last_report_id")),
                         Get(js, "last_id"))
             wi    == PyInt(warn0)
             warn1 == IF wi = Raises THEN None ELSE wi
             lrid1 == IF lrid0 # None THEN JStr(PyStr(lrid0)) ELSE None
         IN  <<warn1, lrid1>>

\* ------------------------------------------------------------------------
\* Tier 2: /api/qmdl-manifest
\* ------------------------------------------------------------------------

IdKeys == <<"id", "report_id", "reportId", "uid">>

\* _id(d) of parse_newest_entry: the int of the first of the keys whose value
\* is no bool and converts, None when there is none
_id(d) ==
    LET ok == {k \in 1..Len(IdKeys) :
                 /\ Get(d, IdKeys[k]).t # "bool"
                 /\ PyInt(Get(d, IdKeys[k])) # Raises}
    IN  IF ok = {} THEN None
        ELSE PyInt(Get(d, IdKeys[CHOOSE k \in ok : \A j \in ok : k <= j]))

\* the newest entry taken to be the last identified one of the list
parse_newest_entry_Last(manifest) ==
    IF manifest.t # "list" \/ Len(manifest.l) = 0 THEN <<None, None>>
    ELSE LET m        == manifest.l
             with_ids == {n \in 1..Len(m) : m[n].t = "dict" /\ _id(m[n]) # None}
             lastId   == CHOOSE n \in with_ids : \A j \in with_ids : j <= n
         IN  IF with_ids # {}
             THEN <<m[lastId], JStr(PyStr(_id(m[lastId])))>>
             ELSE <<None, None>>

\* parse_newest_entry(manifest): <<entry, report id>>
parse_newest_entry(manifest) ==
    IF manifest.t # "list" \/ Len(manifest.l) = 0 THEN <<None, None>>
    ELSE LET m        == manifest.l
             with_ids == {n \in 1..Len(m) : m[n].t = "dict" /\ _id(m[n]) # None}
             \* max(with_ids, key=_id) keeps the first of the largest
             best     == CHOOSE n \in with_ids :
                            \A j \in with_ids :
                               \/ _id(m[j]).i < _id(m[n]).i
                               \/ (_id(m[j]).i = _id(m[n]).i /\ n <= j)
             last     == m[Len(m)]
             newest   == IF last.t = "dict" THEN last ELSE None
             present  == {k \in 1..Len(IdKeys) : Get(newest, IdKeys[k]) # None}
             rid0     == IF Truthy(newest) /\ present # {}
                         THEN JStr(PyStr(Get(newest,
                                  IdKeys[CHOOSE k \in present : \A j \in present : k <= j])))
                         ELSE None
         IN  IF with_ids # {}
             THEN <<m[best], JStr(PyStr(_id(m[best])))>>
             ELSE <<newest, rid0>>

EntryWarnKeys == <<"warnings", "warning_count", "num_warnings", "warningTotal">>

\* count_warnings_from_manifest_entry(entry)
count_warnings_from_manifest_entry(entry) ==
    IF entry.t # "dict" THEN None
    ELSE LET ok == {k \in 1..Len(EntryWarnKeys) :
                      PyInt(Get(entry, EntryWarnKeys[k])) # Raises}
         IN  IF ok = {} THEN None
             ELSE JInt(Max(0, PyInt(Get(entry,
                      EntryWarnKeys[CHOOSE k \in ok : \A j \in ok : k <= j])).i))

\* ------------------------------------------------------------------------
\* Tier 3: /api/analysis-report/<id>
\* ------------------------------------------------------------------------

ReportPaths == <<"warnings", "warning_count", "num_warnings", "warningTotal",
                 "analysis.warnings", "summary.warnings">>

\* cur = cur[p] along the keys of a path; a missing key or a value that is
\* no dict raises
RECURSIVE Traverse(_, _)
Traverse(cur, path) ==
    IF Len(path) = 0 THEN cur
    ELSE IF cur.t = "dict" /\ HasKey(cur, Head(path))
         THEN Traverse(Get(cur, Head(path)), Tail(path))
         ELSE Raises

\* int(cur) at the end of a dotted path
PathInt(report, k) ==
    LET cur == Traverse(report, Split(k))
    IN  IF cur = Raises THEN Raises ELSE PyInt(cur)

SeverityKeys == {"severity", "level", "type", "class"}

\* re.search(r"(warn|critical)", sev, re.I)
SeverityMatch(sev) ==
    \/ Occurrences(Lower(sev), "warn") # {}
    \/ Occurrences(Lower(sev), "critical") # {}

\* walk(x) of count_warnings_from_report
RECURSIVE walk(_), WalkSum(_)
WalkSum(items) ==
    IF Len(items) = 0 THEN 0 ELSE walk(Head(items)) + WalkSum(Tail(items))

walk(x) ==
    CASE x.t = "dict" ->
           LET vals   == [n \in 1..Len(x.d) |-> x.d[n][2]]
               nested == SelectSeq(vals, LAMBDA v : v.t \in {"dict", "list"})
               sevs   == {n \in 1..Len(x.d) :
                            /\ x.d[n][2].t = "str"
                            /\ Lower(x.d[n][1]) \in SeverityKeys}
               \* the loop overwrites sev: the last such item is the one tested
               sev    == IF sevs = {} THEN None
                         ELSE x.d[CHOOSE n \in sevs : \A j \in sevs : j <= n][2]
           IN  WalkSum(nested)
                 + (IF Truthy(sev) /\ SeverityMatch(sev.s) THEN 1 ELSE 0)
      [] x.t = "list" -> WalkSum(x.l)
      [] OTHER -> 0

\* len(re.findall(r"\bwarning\b", text, re.I))
WordCount(text) ==
    Cardinality({n \in Occurrences(Lower(text), "warning") :
                   /\ (n = 1 \/ ~IsWordChar(Char(text, n - 1)))
                   /\ (n + 7 > Len(text) \/ ~IsWordChar(Char(text, n + 7)))})

\* count_warnings_from_report(report)
count_warnings_from_report(report) ==
    IF report = None THEN 0
    ELSE LET ok  == IF report.t = "dict"
                    THEN {k \in 1..Len(ReportPaths) : PathInt(report, ReportPaths[k]) # Raises}
                    ELSE {}
             cnt == walk(report)
         IN  IF ok # {}
             THEN Max(0, PathInt(report, ReportPaths[CHOOSE k \in ok : \A j \in ok : k <= j]).i)
             ELSE IF cnt # 0 THEN cnt
             ELSE WordCount(PyStr(report))

\* ------------------------------------------------------------------------
\* Bounds and inputs of the model
\* ------------------------------------------------------------------------

\* no poll cycle starts at or after this time (seconds since start)
MaxTime == 5
\* lines the stdin reader thread reads in a run
MaxLines == 1

\* what /api/system-stats may answer
StatsDocs ==
    {None}
    \cup {JDict(<< <<"warningCount", JInt(n)>>, <<"lastReportId", JStr("5")>> >>) :
            n \in {-1, 0, 1}}
    \cup {JDict(<< <<"warning_count", JInt(0)>>, <<"last_id", JInt(7)>> >>),
          JDict(<< <<"warningCount", JInt(1)>> >>),
          JDict(<< <<"lastReportId", JInt(7)>> >>)}

\* what /api/qmdl-manifest may answer
ManifestDocs ==
    {None,
     JList(<< JDict(<< <<"id", JInt(5)>> >>),
              JDict(<< <<"id", JInt(7)>>, <<"warnings", JInt(2)>> >>) >>),
     JList(<< JDict(<< <<"id", JStr("5")>> >>) >>)}

\* what /api/analysis-report/<id> may answer
ReportDocs ==
    {None,
     JDict(<< <<"summary", JDict(<< <<"warnings", JInt(1)>> >>)>> >>)}

\* the settings read from the environment (lines 23-30) and stdin.isatty()
PollChoices == {1, 2}
ForceChoices == {0, 3}
AutoclearChoices == {0, 2}

\* ------------------------------------------------------------------------
\* State
\* ------------------------------------------------------------------------

VARIABLES
    \* configuration, fixed at start
    POLL, ALERT_ON_NEW, FORCE_ALERT_SECS, AUTOCLEAR_SECS, isatty,
    \* the driver loop
    pc, _shutdown, clock,
    warn, rid, manifest, entry, report, w, alert, now, slept,
    last_warn, last_id, last_alert, last_line, next_forced, clear_deadline,
    \* the queue the stdin reader thread fills
    stdin_q, linesRead,
    \* retained payloads at the broker, by state topic
    topics,
    \* bookkeeping of the current cycle: the stats document, the endpoints
    \* fetched, the events handed to mqtt_publish, whether a forced, manual or
    \* auto-clear step acted, the held state the cycle started from
    js, calls, events, synth, held,
    \* bookkeeping across cycles: the canonical state, alert and quietness of
    \* the previous cycle, the last event handed to mqtt_publish before this
    \* cycle, the time of the last forced alert (-1: none yet, -2: the
    \* canonical state has changed between two cycles) and the events since
    \* it, the sleep increments completed since the shutdown flag was set
    prevCycle, lastEv, forcedAt, afterForced, stopSleeps

config == <<POLL, ALERT_ON_NEW, FORCE_ALERT_SECS, AUTOCLEAR_SECS, isatty>>
locals == <<warn, rid, manifest, entry, report, w, alert>>
observed == <<last_warn, last_id, last_alert>>
timers == <<next_forced, clear_deadline>>
cycle == <<js, calls, events, synth, held>>
history == <<prevCycle, lastEv, forcedAt, afterForced, stopSleeps>>
vars == <<config, pc, _shutdown, clock, locals, now, slept, observed, last_line,
          timers, stdin_q, linesRead, topics, cycle, history>>

NoEvent == [src |-> "none"]
NoCycle == [quiet |-> FALSE, first |-> TRUE]
NoHeld == [id |-> None, warn |-> 0, alert |-> FALSE]

\* the state main() sets up in lines 268-276, with MQTT_HOST set and the
\* broker connected, under the settings it was started with
Fresh ==
    /\ _shutdown = FALSE
    /\ clock = 0
    /\ warn = None /\ rid = None /\ entry = None /\ w = None
    /\ alert = FALSE /\ now = 0 /\ slept = 0
    /\ last_warn = 0
    /\ last_id = None
    /\ last_alert = FALSE
    /\ last_line = ""
    /\ next_forced = (IF FORCE_ALERT_SECS > 0 THEN 0 + FORCE_ALERT_SECS ELSE 0)
    /\ clear_deadline = 0
    /\ stdin_q = <<>>
    /\ linesRead = 0
    /\ topics = [availability |-> "online", alert |-> "", last_report_id |-> "",
                 last_warning_count |-> ""]
    /\ calls = <<>> /\ events = <<>> /\ synth = FALSE
    /\ held = NoHeld
    /\ prevCycle = NoCycle
    /\ lastEv = NoEvent
    /\ forcedAt = -1 /\ afterForced = <<>>
    /\ stopSleeps = 0

\* no document has been fetched
NoDocuments == js = None /\ manifest = None /\ report = None

\* main() is about to enter its loop
Start == pc = "loop" /\ NoDocuments /\ Fresh

\* the settings of lines 23-30 and the kind of stdin, then main()
Init ==
    /\ POLL \in PollChoices
    /\ ALERT_ON_NEW \in BOOLEAN
    /\ FORCE_ALERT_SECS \in ForceChoices
    /\ AUTOCLEAR_SECS \in AutoclearChoices
    /\ isatty \in BOOLEAN
    /\ Start

\* ------------------------------------------------------------------------
\* The Notifier
\* ------------------------------------------------------------------------

\* mqtt_publish(state, last_id, warn_count): the retained payloads after it
mqtt_publish(state, lid, warn_count) ==
    [topics EXCEPT
       !.alert = IF state THEN "ON" ELSE "OFF",
       !.last_report_id = IF lid # None THEN PyStr(lid) ELSE @,
       !.last_warning_count =
           IF warn_count # None THEN IntStr(Max(0, warn_count.i)) ELSE @]

\* the call of mqtt_publish as an event, with the step that made it
Event(src, state, lid, warn_count) ==
    [src |-> src, alert |-> state, id |-> lid, warn |-> warn_count, at |-> clock]

\* the (alert, report_id, warning_count) an event carries
Triple(e) == [alert |-> e.alert, id |-> e.id, warn |-> e.warn]

\* a Notifier call that replaces the events of the cycle by the latest one
Publish_Coalesced(src, state, lid, warn_count) ==
    /\ topics' = mqtt_publish(state, lid, warn_count)
    /\ events' = <<Event(src, state, lid, warn_count)>>

\* step `src` calls mqtt_publish(state, lid, warn_count)
Publish(src, state, lid, warn_count) ==
    /\ topics' = mqtt_publish(state, lid, warn_count)
    /\ events' = Append(events, Event(src, state, lid, warn_count))

NoPublish == UNCHANGED <<topics, events>>

\* an event that is no forced alert joins the events since the last forced one
Follows(state) ==
    IF forcedAt >= 0
    THEN Append(afterForced, [alert |-> state, after |-> clock - forcedAt])
    ELSE afterForced

\* ------------------------------------------------------------------------
\* The driver loop of main()
\* ------------------------------------------------------------------------

\* the loop without its exit
LoopCond_Forever == TRUE

\* line 278: while not _shutdown
LoopCond == ~_shutdown

\* lines 278 and 333: enter the next cycle, or leave the loop for the teardown
LoopHead ==
    /\ pc = "loop"
    /\ IF LoopCond
       THEN /\ clock < MaxTime
            /\ pc' = "stats"
            /\ held' = [id |-> last_id, warn |-> last_warn, alert |-> last_alert]
       ELSE /\ pc' = "teardown"
            /\ UNCHANGED held
    /\ UNCHANGED <<config, _shutdown, clock, locals, now, slept, observed,
                   last_line, timers, stdin_q, linesRead, topics, js, calls,
                   events, synth, history>>

\* line 280: warn, rid = get_stats(); line 282 decides on the fallback
GetStats ==
    /\ pc = "stats"
    /\ \E doc \in StatsDocs :
         /\ js' = doc
         /\ warn' = get_stats(doc)[1]
         /\ rid' = get_stats(doc)[2]
    /\ calls' = Append(calls, "stats")
    /\ pc' = IF warn' = None \/ rid' = None THEN "manifest" ELSE "gate"
    /\ UNCHANGED <<config, _shutdown, clock, manifest, entry, report, w, alert,
                   now, slept, observed, last_line, timers, stdin_q, linesRead,
                   topics, events, synth, held, history>>

\* lines 284-287: the manifest tier
Manifest ==
    /\ pc = "manifest"
    /\ \E doc \in ManifestDocs :
         /\ manifest' = doc
         /\ entry' = parse_newest_entry(doc)[1]
         /\ rid' = IF rid = None THEN parse_newest_entry(doc)[2] ELSE rid
         /\ w' = count_warnings_from_manifest_entry(entry')
    /\ calls' = Append(calls, "manifest")
    /\ pc' = "report"
    /\ UNCHANGED <<config, _shutdown, clock, warn, report, alert, now, slept,
                   observed, last_line, timers, stdin_q, linesRead, topics, js,
                   events, synth, held, history>>

\* line 288: the report is fetched when the count is unresolved and rid is set
NeedsReport == w = None /\ Truthy(rid)

\* lines 288-290: the report tier, and the count the cycle settles on
Report ==
    /\ pc = "report"
    /\ IF NeedsReport
       THEN /\ \E doc \in ReportDocs :
                 /\ report' = doc
                 /\ w' = JInt(count_warnings_from_report(doc))
            /\ calls' = Append(calls, "report")
       ELSE UNCHANGED <<report, w, calls>>
    /\ warn' = IF warn # None THEN warn ELSE Or(w', JInt(0))
    /\ pc' = "gate"
    /\ UNCHANGED <<config, _shutdown, clock, rid, manifest, entry, alert, now,
                   slept, observed, last_line, timers, stdin_q, linesRead, topics,
                   js, events, synth, held, history>>

\* the alert without the alert-on-new-report rule
ComputeAlert_NoNew == Or(warn, JInt(0)).i > 0

\* lines 292-294: the alert of the cycle
ComputeAlert ==
    IF ALERT_ON_NEW /\ rid # None /\ rid # last_id
    THEN TRUE
    ELSE Or(warn, JInt(0)).i > 0

\* the gate republishing on every cycle
Changed_Always(a) == TRUE

\* the gate without the comparison of the alert
Changed_NoAlert(a) == rid # last_id \/ warn # JInt(last_warn)

\* the gate without the comparison of the warning count
Changed_NoWarn(a) == rid # last_id \/ a # last_alert

\* line 296: the change gate, for the alert a just computed
Changed(a) == rid # last_id \/ warn # JInt(last_warn) \/ a # last_alert

\* the held count clamped at zero
HeldWarn_Clamped == Max(0, Or(warn, JInt(0)).i)

\* line 298: the count held after a change, (warn or 0)
HeldWarn == Or(warn, JInt(0)).i

\* the canonical state of this cycle is the previous cycle's
SameCanonical ==
    /\ ~prevCycle.first
    /\ rid = prevCycle.rid
    /\ warn = prevCycle.warn

\* lines 292-298: compute the alert, publish and hold the state on a change
Reconcile ==
    /\ pc = "gate"
    /\ alert' = ComputeAlert
    /\ IF Changed(alert')
       THEN /\ Publish("gate", alert', rid, warn)
            /\ last_id' = rid
            /\ last_warn' = HeldWarn
            /\ last_alert' = alert'
       ELSE NoPublish /\ UNCHANGED observed
    /\ IF prevCycle.first \/ SameCanonical
       THEN /\ forcedAt' = forcedAt
            /\ afterForced' = IF Changed(alert') THEN Follows(alert') ELSE afterForced
       ELSE forcedAt' = -2 /\ afterForced' = <<>>
    /\ pc' = "forced"
    /\ UNCHANGED <<config, _shutdown, clock, warn, rid, manifest, entry, report,
                   w, now, slept, last_line, timers, stdin_q, linesRead, js, calls,
                   synth, held, prevCycle, lastEv, stopSleeps>>

\* line 301: the forced alert is due
ForcedDue == FORCE_ALERT_SECS > 0 /\ clock >= next_forced

\* lines 300-306: the forced alert
Forced ==
    /\ pc = "forced"
    /\ now' = clock
    /\ IF ForcedDue
       THEN /\ Publish("forced", TRUE, last_id, JInt(last_warn))
            /\ last_alert' = TRUE
            /\ next_forced' = now' + FORCE_ALERT_SECS
            /\ clear_deadline' = IF AUTOCLEAR_SECS > 0
                                 THEN now' + AUTOCLEAR_SECS
                                 ELSE clear_deadline
            /\ synth' = TRUE
            /\ forcedAt' = (IF forcedAt = -2 THEN forcedAt ELSE clock)
            /\ afterForced' = <<>>
       ELSE /\ NoPublish
            /\ UNCHANGED <<last_alert, timers, synth, forcedAt, afterForced>>
    /\ pc' = "manual"
    /\ UNCHANGED <<config, _shutdown, clock, locals, slept, last_warn, last_id,
                   last_line, stdin_q, linesRead, js, calls, held, prevCycle,
                   lastEv, stopSleeps>>

\* a turn of the drain loop that takes the trigger and does nothing with it
ManualDrain_Silent ==
    /\ pc = "manual"
    /\ isatty /\ Len(stdin_q) > 0
    /\ stdin_q' = Tail(stdin_q)
    /\ UNCHANGED <<config, pc, _shutdown, clock, locals, now, slept, observed,
                   last_line, timers, linesRead, topics, cycle, history>>

\* lines 310-315: one turn of the drain loop, for one queued trigger
ManualDrain ==
    /\ pc = "manual"
    /\ isatty /\ Len(stdin_q) > 0
    /\ stdin_q' = Tail(stdin_q)
    /\ Publish("manual", TRUE, last_id, JInt(last_warn))
    /\ last_alert' = TRUE
    /\ clear_deadline' = IF AUTOCLEAR_SECS > 0
                         THEN clock + AUTOCLEAR_SECS
                         ELSE clear_deadline
    /\ synth' = TRUE
    /\ afterForced' = Follows(TRUE)
    /\ UNCHANGED <<config, pc, _shutdown, clock, locals, now, slept, last_warn,
                   last_id, last_line, next_forced, linesRead, js, calls, held,
                   prevCycle, lastEv, forcedAt, stopSleeps>>

\* lines 308-310: no queue (stdin is no TTY), or the queue is empty
ManualDone ==
    /\ pc = "manual"
    /\ ~isatty \/ Len(stdin_q) = 0
    /\ pc' = "clear"
    /\ UNCHANGED <<config, _shutdown, clock, locals, now, slept, observed,
                   last_line, timers, stdin_q, linesRead, topics, cycle, history>>

\* line 319: the auto-clear deadline is armed and has passed
ClearDue == clear_deadline # 0 /\ clock >= clear_deadline

\* lines 319-322: the auto-clear
AutoClear ==
    /\ pc = "clear"
    /\ IF ClearDue
       THEN /\ Publish("clear", FALSE, last_id, JInt(last_warn))
            /\ last_alert' = FALSE
            /\ clear_deadline' = 0
            /\ synth' = TRUE
            /\ afterForced' = Follows(FALSE)
       ELSE /\ NoPublish
            /\ UNCHANGED <<last_alert, clear_deadline, afterForced, synth>>
    /\ pc' = "log"
    /\ UNCHANGED <<config, _shutdown, clock, locals, now, slept, last_warn,
                   last_id, last_line, next_forced, stdin_q, linesRead, js, calls,
                   held, prevCycle, lastEv, forcedAt, stopSleeps>>

\* no forced, manual or auto-clear step acted in this cycle and no auto-clear
\* deadline is (so: was) armed
Quiet == ~synth /\ clear_deadline = 0

\* line 324: the status line of the cycle
StatusLine ==
    "hb=" \o (IF warn # None THEN "ok" ELSE "down")
      \o " last_id=" \o PyStr(last_id)
      \o " warnings=" \o IntStr(last_warn)
      \o " alert=" \o (IF last_alert THEN "ON" ELSE "OFF")

\* lines 324-329: the status line, kept when it changed; the sleep begins.
\* warn, rid, manifest, entry, w and alert are dead from here on: every cycle assigns
\* each of them before it reads it, so the model drops their values, and
\* closes the bookkeeping of the cycle.
Log ==
    /\ pc = "log"
    /\ last_line' = StatusLine
    /\ slept' = 0
    /\ pc' = "sleep"
    /\ warn' = None /\ rid' = None /\ manifest' = None /\ entry' = None
    /\ report' = None /\ w' = None
    /\ alert' = FALSE
    /\ js' = None /\ calls' = <<>> /\ events' = <<>> /\ synth' = FALSE
    /\ held' = NoHeld
    /\ prevCycle' = [quiet |-> Quiet, first |-> FALSE, warn |-> warn,
                     rid |-> rid, alert |-> alert]
    /\ lastEv' = IF Len(events) > 0 THEN Triple(events[Len(events)]) ELSE lastEv
    /\ UNCHANGED <<config, _shutdown, clock, now, observed, timers, stdin_q,
                   linesRead, topics, forcedAt, afterForced, stopSleeps>>

\* the sleep loop without the shutdown check
SleepBreak_Never == FALSE

\* line 330: if _shutdown: break
SleepBreak == _shutdown

\* lines 329-330: the next turn of the sleep loop, or its end
SleepCheck ==
    /\ pc = "sleep"
    /\ pc' = IF slept < POLL /\ ~SleepBreak THEN "sleeping" ELSE "loop"
    /\ UNCHANGED <<config, _shutdown, clock, locals, now, slept, observed,
                   last_line, timers, stdin_q, linesRead, topics, cycle, history>>

\* line 331: time.sleep(1)
SleepTick ==
    /\ pc = "sleeping"
    /\ clock' = clock + 1
    /\ slept' = slept + 1
    /\ stopSleeps' = IF _shutdown THEN stopSleeps + 1 ELSE stopSleeps
    /\ pc' = "sleep"
    /\ UNCHANGED <<config, _shutdown, locals, now, observed, last_line, timers,
                   stdin_q, linesRead, topics, cycle, prevCycle, lastEv, forcedAt,
                   afterForced>>

\* line 333 and mqtt_teardown, lines 236-245: mark the device offline
Teardown ==
    /\ pc = "teardown"
    /\ topics' = [topics EXCEPT !.availability = "offline"]
    /\ pc' = "done"
    /\ UNCHANGED <<config, _shutdown, clock, locals, now, slept, observed,
                   last_line, timers, stdin_q, linesRead, cycle, history>>

\* the steps of the loop
Cycle ==
    \/ LoopHead \/ GetStats \/ Manifest \/ Report \/ Reconcile \/ Forced
    \/ ManualDrain \/ ManualDone \/ AutoClear \/ Log \/ SleepCheck \/ SleepTick

\* the steps of the main thread
Main == Cycle \/ Teardown

\* ------------------------------------------------------------------------
\* The signal handler and the stdin reader thread
\* ------------------------------------------------------------------------

\* the process has ended: main() returned, or the exception was re-raised
Exited == pc \in {"done", "raised"}

\* _sigterm, lines 261-265: SIGINT or SIGTERM arrives
Sigterm ==
    /\ ~Exited
    /\ ~_shutdown
    /\ _shutdown' = TRUE
    /\ UNCHANGED <<config, pc, clock, locals, now, slept, observed, last_line,
                   timers, stdin_q, linesRead, topics, cycle, history>>

\* _reader, lines 252-255: a line arrives on stdin and is queued
Reader ==
    /\ isatty
    /\ ~Exited
    /\ linesRead < MaxLines
    /\ stdin_q' = Append(stdin_q, 1)
    /\ linesRead' = linesRead + 1
    /\ UNCHANGED <<config, pc, _shutdown, clock, locals, now, slept, observed,
                   last_line, timers, topics, cycle, history>>

Next == Main \/ Sigterm \/ Reader

Spec == Init /\ [][Next]_vars

\* The runs in which shutdown is studied: the same program, started without
\* the alert-on-new mode and without auto-clear, under every poll interval,
\* forced-alert interval and kind of stdin. The main thread keeps running:
\* each fetch ends (timeouts, bounded retries) and each sleep returns, so a
\* step of it that stays possible is taken.
ShutdownInit == Init /\ ~ALERT_ON_NEW /\ AUTOCLEAR_SECS = 0

ShutdownSpec == ShutdownInit /\ [][Next]_vars /\ WF_vars(Main)

\* ------------------------------------------------------------------------
\* The loop running without end
\* ------------------------------------------------------------------------

Min(S) == CHOOSE t \in S : \A u \in S : t <= u

\* the timers in use: next_forced when forced alerts are on, clear_deadline
\* when it is armed (0 is the disarmed deadline, lines 276, 319 and 322)
ArmedTimers ==
    (IF FORCE_ALERT_SECS > 0 THEN {next_forced} ELSE {})
      \cup (IF clear_deadline # 0 THEN {clear_deadline} ELSE {})

\* main() reads time.time() only to add an interval to it (lines 275, 304,
\* 306, 315) and to compare it with a timer (lines 301, 319): a run is the
\* same run when the clock and the timers in use are counted from a later
\* origin. Between two cycles, once the clock has reached MaxTime, the origin
\* moves up as far as it can with the clock staying >= 0 and the timers in
\* use staying > 0. now is dead there (line 300 assigns it before it is
\* read); the bookkeeping of the events after a forced alert is closed.
Rebase ==
    /\ pc = "loop"
    /\ clock >= MaxTime
    /\ LET shift == Min({clock} \cup {t - 1 : t \in ArmedTimers})
       IN  /\ shift > 0
           /\ clock' = clock - shift
           /\ now' = 0
           /\ next_forced' = IF FORCE_ALERT_SECS > 0
                              THEN next_forced - shift
                              ELSE next_forced
           /\ clear_deadline' = IF clear_deadline # 0
                                 THEN clear_deadline - shift
                                 ELSE clear_deadline
    /\ forcedAt' = (IF forcedAt >= 0 THEN -2 ELSE forcedAt)
    /\ afterForced' = <<>>
    /\ UNCHANGED <<config, pc, _shutdown, locals, slept, observed, last_line,
                   stdin_q, linesRead, topics, cycle, prevCycle, lastEv,
                   stopSleeps>>

\* no signal arrives: the loop keeps running
LiveNext == Cycle \/ Reader \/ Rebase

LiveAutoclearChoices == {0, 3}

\* the runs in which the loop is followed without end: a poll every second,
\* forced alerts off or every 3 s, auto-clear off or as long as the forced
\* interval, either kind of stdin; the alert-on-new mode is off
LiveInit ==
    /\ POLL = 1
    /\ ALERT_ON_NEW = FALSE
    /\ FORCE_ALERT_SECS \in ForceChoices
    /\ AUTOCLEAR_SECS \in LiveAutoclearChoices
    /\ isatty \in BOOLEAN
    /\ Start

\* The main thread keeps running (see ShutdownSpec); the stdin reader acts
\* when a line is typed.
LiveSpec == LiveInit /\ [][LiveNext]_vars /\ WF_vars(Cycle \/ Rebase)

\* ------------------------------------------------------------------------
\* A Notifier that fails: client.publish raises inside mqtt_publish
\* ------------------------------------------------------------------------

\* the retained payloads when one of the three client.publish calls of
\* mqtt_publish (lines 230, 232, 234) raises: those before it went through
PartialPublish(state, lid, warn_count) ==
    {topics,
     [topics EXCEPT !.alert = mqtt_publish(state, lid, warn_count).alert],
     [topics EXCEPT !.alert = mqtt_publish(state, lid, warn_count).alert,
                    !.last_report_id =
                        mqtt_publish(state, lid, warn_count).last_report_id]}

\* line 297 raises: no except clause of main() covers it, the exception
\* leaves main() before line 298 holds the new state
GateRaises ==
    /\ pc = "gate"
    /\ alert' = ComputeAlert
    /\ Changed(alert')
    /\ topics' \in PartialPublish(alert', rid, warn)
    /\ pc' = "except"
    /\ UNCHANGED <<config, _shutdown, clock, warn, rid, manifest, entry, report,
                   w, now, slept, observed, last_line, timers, stdin_q, linesRead,
                   cycle, history>>

\* line 302 raises, before lines 303-306
ForcedRaises ==
    /\ pc = "forced"
    /\ now' = clock
    /\ ForcedDue
    /\ topics' \in PartialPublish(TRUE, last_id, JInt(last_warn))
    /\ pc' = "except"
    /\ UNCHANGED <<config, _shutdown, clock, locals, slept, observed, last_line,
                   timers, stdin_q, linesRead, cycle, history>>

\* line 312 raises after line 311 took the trigger from the queue; the
\* except clause of lines 316-317 swallows the exception and with it the
\* rest of the drain loop
ManualRaises ==
    /\ pc = "manual"
    /\ isatty /\ Len(stdin_q) > 0
    /\ stdin_q' = Tail(stdin_q)
    /\ topics' \in PartialPublish(TRUE, last_id, JInt(last_warn))
    /\ pc' = "clear"
    /\ UNCHANGED <<config, _shutdown, clock, locals, now, slept, observed,
                   last_line, timers, linesRead, cycle, history>>

\* line 320 raises, before lines 321-322
ClearRaises ==
    /\ pc = "clear"
    /\ ClearDue
    /\ topics' \in PartialPublish(FALSE, last_id, JInt(last_warn))
    /\ pc' = "except"
    /\ UNCHANGED <<config, _shutdown, clock, locals, now, slept, observed,
                   last_line, timers, stdin_q, linesRead, cycle, history>>

\* lines 336-341: the exception reaches the module level, mqtt_teardown runs
\* (its own publish may fail as well, lines 244-245) and the exception is
\* raised again: the process ends
Abort ==
    /\ pc = "except"
    /\ topics' \in {topics, [topics EXCEPT !.availability = "offline"]}
    /\ pc' = "raised"
    /\ UNCHANGED <<config, _shutdown, clock, locals, now, slept, observed,
                   last_line, timers, stdin_q, linesRead, cycle, history>>

\* a call of mqtt_publish raises in one of the four steps of a cycle
PublishRaises == GateRaises \/ ForcedRaises \/ ManualRaises \/ ClearRaises

FaultNext == Next \/ PublishRaises \/ Abort

\* the program with a Notifier that may fail, polling every second, without
\* the alert-on-new mode
FaultInit == Init /\ POLL = 1 /\ ALERT_ON_NEW = FALSE

FaultSpec == FaultInit /\ [][FaultNext]_vars

\* ------------------------------------------------------------------------
\* The extraction helpers on their own
\* ------------------------------------------------------------------------

\* items a generated list holds at most
MaxEntries == 3

\* a field left out of a generated object
Absent == [t |-> "absent"]

\* the object with the fields keys[n]: vals[n], in this order, without the
\* absent ones
Object(keys, vals) ==
    JDict(SelectSeq([n \in 1..Len(keys) |-> <<keys[n], vals[n]>>],
                    LAMBDA kv : kv[2] # Absent))

\* the lists of 1..MaxEntries items of S
ListsOf(S) ==
    UNION {{JList(l) : l \in [1..n -> S]} : n \in 1..MaxEntries}

StatsWarnKeys == <<"warningCount", "warnings", "warning_count">>
StatsIdKeys == <<"lastReportId", "last_report_id", "last_id">>

\* stats documents: every choice of the three warning-count aliases and the
\* three report-id aliases, each absent or holding one of a few values, and
\* documents that are no object
StatsInputs ==
    {None, JList(<<JInt(1)>>)}
    \cup {Object(StatsWarnKeys \o StatsIdKeys, wv \o iv) :
            wv \in [1..3 -> {Absent, JInt(0), JInt(3), JStr("x")}],
            iv \in [1..3 -> {Absent, JInt(0), JStr("5")}]}

\* manifest entries: identities 7 and 12 under several keys and types, a
\* boolean and an unparseable identity, an entry without identity, an item
\* that is no object
ManifestEntries ==
    {JDict(<< <<"id", JInt(7)>> >>),
     JDict(<< <<"id", JInt(12)>> >>),
     JDict(<< <<"report_id", JStr("12")>>, <<"warnings", JInt(1)>> >>),
     JDict(<< <<"id", JBool(TRUE)>>, <<"uid", JInt(9)>> >>),
     JDict(<< <<"id", JStr("abc")>>, <<"reportId", JInt(3)>> >>),
     JDict(<< <<"name", JStr("x")>> >>),
     JStr("x")}

ManifestInputs == {None, JList(<<>>)} \cup ListsOf(ManifestEntries)

\* report documents without a numeric field on any dotted path: severity
\* style fields at the top and in the objects of a nested list
ReportEvents ==
    {JDict(<< <<"type", JStr("warning")>> >>),
     JDict(<< <<"class", JStr("ok")>> >>),
     JDict(<< <<"severity", JStr("critical")>>, <<"level", JStr("warn")>> >>)}

ReportInputs ==
    {None}
    \cup {Object(<<"severity", "Level", "events">>, <<sv, lv, ev>>) :
            sv \in {Absent, JStr("Warning"), JStr("info")},
            lv \in {Absent, JStr("CRITICAL")},
            ev \in {Absent} \cup ListsOf(ReportEvents)}

\* one helper is about to be called on a document
ExtractInit ==
    /\ POLL = 1 /\ ALERT_ON_NEW = FALSE
    /\ FORCE_ALERT_SECS = 0 /\ AUTOCLEAR_SECS = 0
    /\ isatty = FALSE
    /\ Fresh
    /\ \/ /\ pc = "call_get_stats"
          /\ js \in StatsInputs /\ manifest = None /\ report = None
       \/ /\ pc = "call_parse_newest_entry"
          /\ js = None /\ manifest \in ManifestInputs /\ report = None
       \/ /\ pc = "call_count_warnings_from_report"
          /\ js = None /\ manifest = None /\ report \in ReportInputs

\* lines 68-81: get_stats() on the document js
CallGetStats ==
    /\ pc = "call_get_stats"
    /\ warn' = get_stats(js)[1]
    /\ rid' = get_stats(js)[2]
    /\ pc' = "ret_get_stats"
    /\ UNCHANGED <<config, _shutdown, clock, manifest, entry, report, w, alert,
                   now, slept, observed, last_line, timers, stdin_q, linesRead,
                   topics, cycle, history>>

\* lines 83-107: parse_newest_entry(manifest)
CallParseNewestEntry ==
    /\ pc = "call_parse_newest_entry"
    /\ entry' = parse_newest_entry(manifest)[1]
    /\ rid' = parse_newest_entry(manifest)[2]
    /\ pc' = "ret_parse_newest_entry"
    /\ UNCHANGED <<config, _shutdown, clock, warn, manifest, report, w, alert,
                   now, slept, observed, last_line, timers, stdin_q, linesRead,
                   topics, cycle, history>>

\* lines 120-150: count_warnings_from_report(report)
CallCountWarningsFromReport ==
    /\ pc = "call_count_warnings_from_report"
    /\ w' = JInt(count_warnings_from_report(report))
    /\ pc' = "ret_count_warnings_from_report"
    /\ UNCHANGED <<config, _shutdown, clock, warn, rid, manifest, entry, report,
                   alert, now, slept, observed, last_line, timers, stdin_q,
                   linesRead, topics, cycle, history>>

ExtractNext ==
    CallGetStats \/ CallParseNewestEntry \/ CallCountWarningsFromReport

ExtractSpec == ExtractInit /\ [][ExtractNext]_vars

\* ------------------------------------------------------------------------
\* Properties
\* ------------------------------------------------------------------------

\* the body of a cycle is over and its bookkeeping still open
CycleEnd == pc = "log"

\* two cycles in a row with the same canonical state, forced alerts off, no
\* manual trigger drained and no auto-clear deadline armed in either
TwiceTheSame ==
    /\ CycleEnd
    /\ FORCE_ALERT_SECS = 0
    /\ prevCycle.quiet
    /\ Quiet
    /\ SameCanonical

\* C1, as claimed: when a cycle is run with a canonical state and the next
\* cycle with the same one (either alert-on-new mode, forced alerts off, no
\* manual trigger, no deadline armed), the second cycle delivers no event.
C1_Idempotent == TwiceTheSame => events = <<>>

\* C1, amended: the second cycle delivers no event when the alert the first
\* cycle computed is (warning_count > 0); when the alert-on-new-report rule
\* alone raised it, the second cycle delivers exactly one event, and that
\* event is (alert=false, report_id, warning_count).
C1_IdempotentUnlessNewReport ==
    TwiceTheSame =>
        IF prevCycle.alert = (warn.i > 0)
        THEN events = <<>>
        ELSE /\ Len(events) = 1
             /\ Triple(events[1]) = [alert |-> FALSE, id |-> rid, warn |-> warn]

C1_Witness == TwiceTheSame /\ rid # None /\ warn.i > 0 /\ events = <<>>

\* the events since the last forced alert, in a run without manual triggers
\* whose canonical state never changed (and holds no negative count), with
\* 0 < auto-clear < forced interval
AfterForcedSteady ==
    /\ FORCE_ALERT_SECS > 0
    /\ 0 < AUTOCLEAR_SECS /\ AUTOCLEAR_SECS < FORCE_ALERT_SECS
    /\ linesRead = 0
    /\ forcedAt >= 0
    /\ last_warn >= 0

\* C2, as claimed: after a forced event and until the next one, at most one
\* other event is delivered, it has alert=false and it comes at least the
\* auto-clear interval after the forced event.
C2_ForcedThenOneClear ==
    AfterForcedSteady =>
        /\ Len(afterForced) <= 1
        /\ \A n \in 1..Len(afterForced) :
              /\ ~afterForced[n].alert
              /\ afterForced[n].after >= AUTOCLEAR_SECS

\* C3, as claimed: once last_report_id holds a known id no cycle sets it
\* back to unset.
C3_ReportIdNeverUnset == [][last_id # None => last_id' # None]_vars

WarnKeys == {"warningCount", "warnings", "warning_count"}
ReportIdKeys == {"lastReportId", "last_report_id", "last_id"}

\* a stats object with a warning-count field that converts to an integer and
\* a report-id field
ExposesBoth(doc) ==
    /\ doc.t = "dict"
    /\ \E k \in WarnKeys : HasKey(doc, k) /\ PyInt(Get(doc, k)) # Raises
    /\ \E k \in ReportIdKeys : HasKey(doc, k) /\ Get(doc, k) # None

\* C4, as claimed: when the stats document exposes a warning count (zero
\* included) and a report id, the cycle resolves both from it and fetches
\* neither the manifest nor the report.
C4_StatsOnly ==
    ExposesBoth(js) => (calls = <<"stats">> /\ pc # "manifest")

\* C5, as claimed: the held last_warning_count is never negative.
C5_HeldCountNonNegative == last_warn >= 0

\* every fetch of the cycle came back unavailable (without a report id the
\* report is not fetched)
AllDown ==
    /\ CycleEnd
    /\ js = None /\ manifest = None
    /\ calls = <<"stats", "manifest">>

\* C6, as claimed: the status line of a cycle whose fetches all came back
\* unavailable carries hb=down and warnings=0.
C6_DownIsLogged ==
    AllDown =>
        /\ SubSeq(StatusLine, 1, 7) = "hb=down"
        /\ Occurrences(StatusLine, " warnings=0 ") # {}

\* a cycle from held count 0 and report id r whose canonical state is (1, r),
\* in which no forced, manual or auto-clear step acted
EdgeCycle ==
    /\ CycleEnd
    /\ held.warn = 0 /\ held.id = rid
    /\ warn = JInt(1)
    /\ ~synth

\* C7: the cycle of a 0 -> 1 edge of the warning count with the report id
\* unchanged delivers exactly one event, (alert=true, r, 1).
C7_EdgeTrigger ==
    EdgeCycle =>
        /\ Len(events) = 1
        /\ Triple(events[1]) = [alert |-> TRUE, id |-> held.id, warn |-> JInt(1)]

C7_Witness == EdgeCycle /\ rid # None /\ held.alert /\ Len(events) = 1

\* the gate has just run, in alert-on-new mode, on a known report id that
\* differs from the held one, with warning count 0
NewReportGate ==
    /\ pc = "forced"
    /\ ALERT_ON_NEW
    /\ rid # None /\ rid # held.id
    /\ warn = JInt(0)

\* C8: in alert-on-new mode a cycle with a known, new report id and warning
\* count 0 delivers (alert=true, new id, 0) and sets last_alert.
C8_AlertOnNew ==
    NewReportGate =>
        /\ last_alert
        /\ last_id = rid
        /\ Len(events) = 1
        /\ events[1].src = "gate"
        /\ Triple(events[1]) = [alert |-> TRUE, id |-> rid, warn |-> JInt(0)]

C8_Witness == NewReportGate /\ held.id # None /\ last_alert

\* a run with forced alerts off and no manual trigger so far (the deadline
\* is then never armed)
QuietRun == FORCE_ALERT_SECS = 0 /\ linesRead = 0

\* C9: in a quiet run a cycle delivers at most one event, only when report
\* id, count or alert differ from the held state, and never the triple of
\* the event delivered before it.
C9_NoRepeat ==
    (QuietRun /\ Len(events) > 0) =>
        /\ Len(events) = 1
        /\ Triple(events[1]) # lastEv
        /\ \/ events[1].id # held.id
           \/ events[1].warn # JInt(held.warn)
           \/ events[1].alert # held.alert

C9_Witness == QuietRun /\ Len(events) = 1 /\ lastEv # NoEvent /\ clock > 1

\* C10: once the shutdown flag is set no poll cycle starts, at most one more
\* sleep increment completes, and the loop reaches the end, where the
\* teardown has marked the device offline.
C10_Shutdown ==
    /\ [][_shutdown => ~(pc # "stats" /\ pc' = "stats")]_vars
    /\ [](stopSleeps <= 1)
    /\ (_shutdown ~> (pc = "done" /\ topics.availability = "offline"))

C10_Witness == pc = "done" /\ stopSleeps = 1 /\ POLL > 1

\* the items of a manifest list that are objects with a parseable,
\* non-boolean integer identity, by position
Identified(m) == {n \in 1..Len(m.l) : m.l[n].t = "dict" /\ _id(m.l[n]) # None}

\* parse_newest_entry has returned for a list with such an item
NewestReturned ==
    /\ pc = "ret_parse_newest_entry"
    /\ manifest.t = "list"
    /\ Identified(manifest) # {}

\* C11: for a manifest list with at least one identified entry, the entry
\* returned is one of the identified entries, its identity is the maximum
\* over all of them, and the report id returned is that maximum as a string.
C11_NewestIsMax ==
    NewestReturned =>
        /\ \E n \in Identified(manifest) : manifest.l[n] = entry
        /\ \A n \in Identified(manifest) : _id(manifest.l[n]).i <= _id(entry).i
        /\ rid = JStr(IntStr(_id(entry).i))

C11_Witness ==
    /\ NewestReturned
    /\ Len(manifest.l) = 2
    /\ manifest.l[1] = JDict(<< <<"id", JInt(12)>> >>)
    /\ manifest.l[2] = JDict(<< <<"id", JInt(7)>> >>)
    /\ entry = JDict(<< <<"id", JInt(12)>> >>)
    /\ rid = JStr("12")

\* C12, as claimed: a step of the cycle in which the publish call raises is
\* followed by the next step of the cycle (the loop is not left).
C12_PublishFailureNotFatal ==
    [][PublishRaises => pc' \in {"forced", "manual", "clear", "log"}]_vars

\* C14, as claimed: at the end of every poll cycle whose canonical warning
\* count is > 0 the alert last delivered to the Notifier is true and the held
\* last_alert is true, whatever the forced-alert and auto-clear intervals.
C14_RealAlertStays ==
    (CycleEnd /\ warn.t = "int" /\ warn.i > 0) =>
        /\ last_alert
        /\ topics.alert = "ON"

\* the auto-clear has just emitted its event and disarmed the deadline
ClearEmitted ==
    /\ pc = "log"
    /\ clear_deadline = 0
    /\ Len(events) > 0
    /\ events[Len(events)].src = "clear"
    /\ ~events[Len(events)].alert

\* C15, as claimed: in a run whose loop keeps running (the manual triggers
\* of a run are finitely many), whenever the auto-clear deadline is armed an
\* auto-clear event is eventually emitted, for every forced-alert, auto-clear
\* and poll interval.
C15_AutoClearLive == (clear_deadline # 0) ~> ClearEmitted

\* the manual triggers taken from the queue so far
Dequeued == linesRead - Len(stdin_q)

Rank(src) ==
    CASE src = "gate" -> 1 [] src = "forced" -> 2 [] src = "manual" -> 3
      [] src = "clear" -> 4

\* the events of the cycle so far that step src delivered
EventsOf(src) == {n \in 1..Len(events) : events[n].src = src}

\* the events of the cycle so far are in the order gate, forced, manual,
\* clear, with at most one of each but manual
InCycleOrder ==
    /\ \A m, n \in 1..Len(events) :
          m < n => Rank(events[m].src) <= Rank(events[n].src)
    /\ \A src \in {"gate", "forced", "clear"} : Cardinality(EventsOf(src)) <= 1

\* the forced, manual and auto-clear events of the cycle so far carry the
\* held report id and warning count
CarryHeld ==
    \A n \in 1..Len(events) :
       events[n].src # "gate" =>
          events[n].id = last_id /\ events[n].warn = JInt(last_warn)

\* this step hands exactly one more event to the Notifier, delivered by src
Delivers(src) ==
    /\ Len(events') = Len(events) + 1
    /\ SubSeq(events', 1, Len(events)) = events
    /\ events'[Len(events')].src = src

\* C17: the events of a cycle are delivered in the order change gate (at
\* most one), forced alert (at most one), manual triggers, auto-clear (at
\* most one); every step that acts delivers one event of its own, appended
\* to those before it (the events change in no other way within a cycle);
\* the forced, manual and auto-clear events carry the report id and warning
\* count held after the change gate, which those steps leave unchanged.
C17_EventOrder ==
    /\ [](InCycleOrder /\ CarryHeld)
    /\ [][events' # events =>
             \/ pc = "log" /\ events' = <<>>
             \/ \E src \in {"gate", "forced", "manual", "clear"} : Delivers(src)]_vars
    /\ [][(pc = "gate" /\ pc' = "forced" /\ Changed(ComputeAlert)) =>
             Delivers("gate")]_vars
    /\ [][(pc = "forced" /\ pc' = "manual" /\ ForcedDue) =>
             Delivers("forced")]_vars
    /\ [][Len(stdin_q') < Len(stdin_q) => Delivers("manual")]_vars
    /\ [][(pc = "clear" /\ pc' = "log" /\ ClearDue) => Delivers("clear")]_vars
    /\ [][(pc \in {"forced", "manual", "clear"}) =>
             (last_id' = last_id /\ last_warn' = last_warn)]_vars

\* a cycle in which the gate, with a new state, the forced alert and a
\* manual trigger delivered (a deadline they arm is not due in the same cycle)
C17_Witness ==
    /\ CycleEnd
    /\ Len(events) = 3
    /\ events[1].src = "gate" /\ events[2].src = "forced"
    /\ events[3].src = "manual"
    /\ held.id # last_id /\ held.warn # last_warn

\* the cycle has fetched the report
ReportFetched == \E n \in 1..Len(calls) : calls[n] = "report"

\* C18, as claimed: a cycle fetches the report only when the warning count
\* is unresolved after the stats tier and after the manifest tier and a
\* report id is known; a cycle whose stats document resolved the count
\* fetches no report.
C18_ReportOnlyWhenNeeded ==
    ReportFetched =>
        /\ get_stats(js)[1] = None
        /\ count_warnings_from_manifest_entry(entry) = None
        /\ rid # None

\* C20: at the end of every poll cycle in which no forced, manual or
\* auto-clear step acted, the held (last_report_id, last_warning_count,
\* last_alert) is the (report_id, warning_count, alert) the cycle computed,
\* whether or not the gate published.
C20_ObservedTracksCanonical ==
    (CycleEnd /\ ~synth) =>
        /\ last_id = rid
        /\ JInt(last_warn) = warn
        /\ last_alert = alert

\* such a cycle that started from a synthetic alert (held alert true after a
\* cycle that computed false) and overwrote it
C20_Witness ==
    /\ CycleEnd /\ ~synth
    /\ ~prevCycle.first /\ ~prevCycle.alert
    /\ held.alert
    /\ ~alert /\ ~last_alert
    /\ rid # None

\* the keys of an alias list that the object x holds, by position
Present(x, keys) == {k \in 1..Len(keys) : HasKey(x, keys[k])}

\* the value under the first alias present
FirstPresent(x, keys) ==
    Get(x, keys[CHOOSE k \in Present(x, keys) : \A j \in Present(x, keys) : k <= j])

\* the int of a value, unknown when it does not convert
Coerced(v) == IF PyInt(v) = Raises THEN None ELSE PyInt(v)

\* C13, as claimed: for a stats object the warning count returned is the
\* integer of the first alias present among warningCount, warnings,
\* warning_count (unknown when it does not convert, or when none is present)
\* and the report id returned is the string of the first alias present among
\* lastReportId, last_report_id, last_id, a 0 held by that field included.
C13_FirstPresentWins ==
    (pc = "ret_get_stats" /\ js.t = "dict") =>
        /\ warn = IF Present(js, StatsWarnKeys) = {} THEN None
                  ELSE Coerced(FirstPresent(js, StatsWarnKeys))
        /\ rid = IF Present(js, StatsIdKeys) = {} THEN None
                 ELSE JStr(PyStr(FirstPresent(js, StatsIdKeys)))

\* the number of fields, at any depth of x, named severity, level, type or
\* class (in any case) whose string value contains warn or critical
RECURSIVE SeverityFields(_), SeverityFieldsSum(_)
SeverityFieldsSum(items) ==
    IF Len(items) = 0 THEN 0
    ELSE SeverityFields(Head(items)) + SeverityFieldsSum(Tail(items))

SeverityFields(x) ==
    CASE x.t = "dict" ->
           SeverityFieldsSum([n \in 1..Len(x.d) |-> x.d[n][2]])
             + Cardinality({n \in 1..Len(x.d) :
                              /\ x.d[n][2].t = "str"
                              /\ Lower(x.d[n][1]) \in SeverityKeys
                              /\ SeverityMatch(x.d[n][2].s)})
      [] x.t = "list" -> SeverityFieldsSum(x.l)
      [] OTHER -> 0

\* no dotted path of the report resolves to an integer
NoPathResolves(x) ==
    x.t # "dict" \/ \A k \in 1..Len(ReportPaths) : PathInt(x, ReportPaths[k]) = Raises

\* C19, as claimed: for a report in which no dotted path resolves, the count
\* returned is the number of severity-style fields, at every depth, whose
\* value matches warn or critical, whenever that number is not zero.
C19_SeverityScan ==
    (/\ pc = "ret_count_warnings_from_report"
     /\ report # None
     /\ NoPathResolves(report)
     /\ SeverityFields(report) # 0)
        => w = JInt(SeverityFields(report))
====
